---- MODULE Spec2Model ----
(***************************************************************************)
(* RF Spectrum Observatory: the geospatial tile aggregator                 *)
(* (src/src/geo/aggregate.py, src/src/geo/tiling.py) and the DSP pipeline  *)
(* (src/src/dsp/pipeline.py and the modules it calls).                     *)
(*                                                                         *)
(* Conventions                                                             *)
(*   - Python None is <<>>, a present value v is <<v>> (None / Some).      *)
(*   - A float that may be NaN is <<>> (NaN) or <<v>> (NaN / Num).         *)
(*   - A mean is the exact pair <<sum, count>>; count = 0 is NaN.          *)
(*   - Coordinates are integers in grid units: one unit is the number of   *)
(*     degrees that half a metre spans on the axis, so that the metre to   *)
(*     degree factors of tiling.py are 2 units per metre on both axes and  *)
(*     all bounds are computed exactly, but for the float rounding of the  *)
(*     grid bounds center -/+ half_extent: a grid is built with the        *)
(*     displacement <<lat_min, lat_max, lon_min, lon_max>> its bounds have *)
(*     from the exact values, each -1, 0 or 1.  One unit stands for a      *)
(*     rounding error there: the grids built with a displacement have      *)
(*     their exact bounds, and take their points, at even coordinates.     *)
(*   - A raised exception leaves its name in exc and no return value.      *)
(*   - ema_state is the content of the array ema_filter._state is bound to; *)
(*     which array object that is, and which objects the returned records  *)
(*     hold, is kept in heap, state_ref and held.                           *)
(***************************************************************************)
EXTENDS Integers, Sequences, FiniteSets, TLC

VARIABLES
    fft_size,                 \* DSPPipeline.fft_size
    window_type,              \* DSPPipeline.window_type
    smoothing_factor,         \* DSPPipeline.smoothing_factor (hundredths)
    noise_floor_percentile,   \* DSPPipeline.noise_floor_percentile
    bands,                    \* DSPPipeline.bands
    window,                   \* DSPPipeline.window (hundredths)
    window_power_correction,  \* DSPPipeline.window_power_correction
    ema_state,                \* DSPPipeline.ema_filter._state
    gps_fixes,                \* DSPPipeline.gps_fixes
    fix_log,                  \* fixes added since construction or the last reset
    submitted,                \* frames submitted to process_frame so far
    heap,                     \* the PSD arrays allocated so far; an array object
                              \* is its index, its entry the array's content
    state_ref,                \* the array object ema_filter._state is bound to
    held,                     \* the records returned so far, as their callers
                              \* hold them: the array objects of their PSDs
    tile_grid,                \* TileAggregator.tile_grid (a TileGrid)
    aggregate_window_frames,  \* TileAggregator.aggregate_window_frames
    num_bands,                \* TileAggregator.num_bands
    frame_buffer,             \* TileAggregator.frame_buffer (list of rows)
    op,                       \* name of the last call made
    arg,                      \* argument of the last call (None if it has none)
    ret,                      \* value the last call returned (None if none)
    exc,                      \* exception the last call raised ("none" if none)
    repeat,                   \* the last call repeated the call before it
    tainted,                  \* a buffered row was built from a record whose
                              \* band lists do not both have num_bands entries
    appended,                 \* rows add_frame has appended so far
    emitted                   \* sum of frame_count over all summaries returned

cfgVars == <<fft_size, window_type, smoothing_factor, noise_floor_percentile, bands,
             window, window_power_correction>>
heapVars == <<heap, state_ref, held>>
pipeVars == <<cfgVars, ema_state, gps_fixes, fix_log, submitted, heapVars>>
aggCfgVars == <<tile_grid, aggregate_window_frames, num_bands>>
aggVars == <<aggCfgVars, frame_buffer, repeat, tainted, appended, emitted>>
obsVars == <<op, arg, ret, exc>>
vars == <<pipeVars, aggVars, obsVars>>

----------------------------------------------------------------------------
(* Values *)

None == <<>>
Some(v) == <<v>>
NaN == <<>>
Num(v) == <<v>>

Min2(a, b) == IF a <= b THEN a ELSE b
Max2(a, b) == IF a >= b THEN a ELSE b

\* Python int(a / b): truncation toward zero.
IntTrunc(a, b) == IF (a >= 0) = (b > 0) THEN a \div b ELSE -((-a) \div b)

\* numpy ceil(a / b) for positive b.
\* (FloorDiv: the quotient rounded down instead.)
FloorDiv(a, b) == a \div b
CeilDiv(a, b) == (a + b - 1) \div b

RECURSIVE SeqSum(_)
SeqSum(s) == IF s = <<>> THEN 0 ELSE Head(s) + SeqSum(Tail(s))

RECURSIVE SeqMin(_)
SeqMin(s) == IF Len(s) = 1 THEN s[1] ELSE Min2(Head(s), SeqMin(Tail(s)))

RECURSIVE SeqMax(_)
SeqMax(s) == IF Len(s) = 1 THEN s[1] ELSE Max2(Head(s), SeqMax(Tail(s)))

\* The element of a one-element set.  A local assignment v = <expression> of
\* the code is written The({body : v \in {expression}}): the body then reads
\* the value of the expression, computed once.
The(S) == CHOOSE x \in S : TRUE

\* All orderings of a finite set, as sequences without repetition.
Orderings(S) ==
    {s \in [1..Cardinality(S) -> S] : \A i, j \in DOMAIN s : i # j => s[i] # s[j]}

----------------------------------------------------------------------------
(* geo/tiling.py *)

lat_deg_per_m == 2
lon_deg_per_m == 2

TileId(ix, iy) == "tile_x" \o ToString(ix) \o "_y" \o ToString(iy)

Tile(tile_id, tile_x, tile_y, lat_min, lat_max, lon_min, lon_max) ==
    [tile_id |-> tile_id, tile_x |-> tile_x, tile_y |-> tile_y,
     lat_min |-> lat_min, lat_max |-> lat_max,
     lon_min |-> lon_min, lon_max |-> lon_max]

Tile_contains(tile, lat, lon) ==
    /\ tile.lat_min <= lat /\ lat <= tile.lat_max
    /\ tile.lon_min <= lon /\ lon <= tile.lon_max

\* The list built by the two nested loops: ix outer, iy inner.
generate_tiles(lat_min, lon_min, tile_size_lat, tile_size_lon, num_tiles_x, num_tiles_y) ==
    [k \in 1..(num_tiles_x * num_tiles_y) |->
        LET ix == (k - 1) \div num_tiles_y
            iy == (k - 1) % num_tiles_y
            tile_lon_min == lon_min + ix * tile_size_lon
            tile_lon_max == tile_lon_min + tile_size_lon
            tile_lat_min == lat_min + iy * tile_size_lat
            tile_lat_max == tile_lat_min + tile_size_lat
        IN  Tile(TileId(ix, iy), ix, iy,
                 tile_lat_min, tile_lat_max, tile_lon_min, tile_lon_max)]

\* {t.tile_id: t for t in tiles}: a later tile with the same id wins.
\* (tile_lookup_short: the same over all tiles but the last.)
tile_lookup_short(tiles) ==
    [id \in {tiles[k].tile_id : k \in 1..(Len(tiles) - 1)} |->
        tiles[CHOOSE k \in DOMAIN tiles : tiles[k].tile_id = id]]
tile_lookup_of(tiles) ==
    [id \in {tiles[k].tile_id : k \in DOMAIN tiles} |->
        LET last == CHOOSE k \in DOMAIN tiles :
                        /\ tiles[k].tile_id = id
                        /\ \A j \in DOMAIN tiles : tiles[j].tile_id = id => j <= k
        IN  tiles[last]]

\* rounding is the displacement of the four float results lat_min, lat_max,
\* lon_min, lon_max from their exact values.
TileGrid(center_lat, center_lon, tile_size_meters, grid_extent_meters, rounding) ==
    LET half_extent_lat == (grid_extent_meters * lat_deg_per_m) \div 2
        half_extent_lon == (grid_extent_meters * lon_deg_per_m) \div 2
        lat_min == center_lat - half_extent_lat + rounding[1]
        lat_max == center_lat + half_extent_lat + rounding[2]
        lon_min == center_lon - half_extent_lon + rounding[3]
        lon_max == center_lon + half_extent_lon + rounding[4]
        tile_size_lat == tile_size_meters * lat_deg_per_m
        tile_size_lon == tile_size_meters * lon_deg_per_m
        num_tiles_x == CeilDiv(grid_extent_meters, tile_size_meters)
        num_tiles_y == CeilDiv(grid_extent_meters, tile_size_meters)
        tiles == generate_tiles(lat_min, lon_min, tile_size_lat, tile_size_lon,
                                num_tiles_x, num_tiles_y)
    IN  [center_lat |-> center_lat, center_lon |-> center_lon,
         tile_size_meters |-> tile_size_meters,
         grid_extent_meters |-> grid_extent_meters,
         rounding |-> rounding,
         lat_min |-> lat_min, lat_max |-> lat_max,
         lon_min |-> lon_min, lon_max |-> lon_max,
         tile_size_lat |-> tile_size_lat, tile_size_lon |-> tile_size_lon,
         num_tiles_x |-> num_tiles_x, num_tiles_y |-> num_tiles_y,
         tiles |-> tiles, tile_lookup |-> tile_lookup_of(tiles)]

\* Returns <<tile_x, tile_y, tile_id>>.
\* (get_tile_unclamped: the same without the clamp of the two indexes.)
get_tile_unclamped(grid, lat, lon) ==
    IF ~(/\ grid.lat_min <= lat /\ lat <= grid.lat_max
         /\ grid.lon_min <= lon /\ lon <= grid.lon_max)
    THEN <<-1, -1, "out_of_bounds">>
    ELSE LET ix == IntTrunc(lon - grid.lon_min, grid.tile_size_lon)
             iy == IntTrunc(lat - grid.lat_min, grid.tile_size_lat)
         IN  <<ix, iy, TileId(ix, iy)>>
get_tile(grid, lat, lon) ==
    IF ~(/\ grid.lat_min <= lat /\ lat <= grid.lat_max
         /\ grid.lon_min <= lon /\ lon <= grid.lon_max)
    THEN <<-1, -1, "out_of_bounds">>
    ELSE LET ix0 == IntTrunc(lon - grid.lon_min, grid.tile_size_lon)
             iy0 == IntTrunc(lat - grid.lat_min, grid.tile_size_lat)
             ix == Max2(0, Min2(ix0, grid.num_tiles_x - 1))
             iy == Max2(0, Min2(iy0, grid.num_tiles_y - 1))
         IN  <<ix, iy, TileId(ix, iy)>>

----------------------------------------------------------------------------
(* common/types.py *)

FrameFeatures(frame_id, timestamp_ns, lat_deg, lon_deg, freq_bins_hz, psd_db, psd_smoothed_db, noise_floor_db, bandpower_db, occupancy_pct, anomaly_score) ==
    [frame_id |-> frame_id, timestamp_ns |-> timestamp_ns,
     lat_deg |-> lat_deg, lon_deg |-> lon_deg,
     freq_bins_hz |-> freq_bins_hz, psd_db |-> psd_db,
     psd_smoothed_db |-> psd_smoothed_db, noise_floor_db |-> noise_floor_db,
     bandpower_db |-> bandpower_db, occupancy_pct |-> occupancy_pct,
     anomaly_score |-> anomaly_score]

IQFrame(frame_id, timestamp_ns, center_freq_hz, sample_rate_sps, gain_db, iq) ==
    [frame_id |-> frame_id, timestamp_ns |-> timestamp_ns,
     center_freq_hz |-> center_freq_hz, sample_rate_sps |-> sample_rate_sps,
     gain_db |-> gain_db, iq |-> iq]

GPSFix(gps_timestamp_ns, lat_deg, lon_deg) ==
    [gps_timestamp_ns |-> gps_timestamp_ns, lat_deg |-> lat_deg, lon_deg |-> lon_deg,
     alt_m |-> None, heading_deg |-> None, speed_mps |-> None]

Band(name, start_hz, end_hz) ==
    [name |-> name, start_hz |-> start_hz, end_hz |-> end_hz]

----------------------------------------------------------------------------
(* dsp/windows.py, dsp/fft_psd.py                                          *)
(*                                                                         *)
(* Numbers: a sample is a Gaussian integer <<re, im>>; a win value is   *)
(* an integer number of hundredths; a linear power is the exact fraction   *)
(* <<num, den>>; a dB value is a whole number of dB, rounded down.         *)

WindowScale == 100

\* cusignal.windows.<type>(size, sym=False), in hundredths, for the sizes
\* whose win values are exact in hundredths.
get_window(wtype, size) ==
    CASE wtype = "hann" /\ size = 1 -> <<100>>
      [] wtype = "hann" /\ size = 2 -> <<0, 100>>
      [] wtype = "hann" /\ size = 4 -> <<0, 50, 100, 50>>
      [] wtype = "hamming" /\ size = 1 -> <<100>>
      [] wtype = "hamming" /\ size = 2 -> <<8, 100>>
      [] wtype = "hamming" /\ size = 4 -> <<8, 54, 100, 54>>
      [] wtype = "blackman" /\ size = 1 -> <<100>>
      [] wtype = "blackman" /\ size = 2 -> <<0, 100>>
      [] wtype = "blackman" /\ size = 4 -> <<0, 34, 100, 34>>

\* float(cp.sum(window ** 2)), in units of 1 / WindowScale^2.
window_power(win) == SeqSum([k \in DOMAIN win |-> win[k] * win[k]])

\* numpy broadcasting of two 1-D shapes: the common length, or -1 (ValueError).
broadcast_len(n, m) ==
    IF n = m THEN n ELSE IF n = 1 THEN m ELSE IF m = 1 THEN n ELSE -1

\* frame.iq * window (defined when the shapes broadcast).
apply_window(iq, win) ==
    [k \in 1..broadcast_len(Len(iq), Len(win)) |->
        LET x == IF Len(iq) = 1 THEN iq[1] ELSE iq[k]
            w == IF Len(win) = 1 THEN win[1] ELSE win[k]
        IN  <<x[1] * w, x[2] * w>>]

\* z * (-i)^m
TimesMinusIPow(z, m) ==
    CASE m % 4 = 0 -> z
      [] m % 4 = 1 -> <<z[2], -z[1]>>
      [] m % 4 = 2 -> <<-z[1], -z[2]>>
      [] m % 4 = 3 -> <<-z[2], z[1]>>

RECURSIVE CSum(_)
CSum(zs) == IF zs = <<>> THEN <<0, 0>>
            ELSE LET r == CSum(Tail(zs)) IN <<Head(zs)[1] + r[1], Head(zs)[2] + r[2]>>

\* cp.fft.fft for the lengths N that divide 4, where exp(-2 pi i n k / N) is
\* the power n * k * (4 / N) of -i.
compute_fft(signal) ==
    LET N == Len(signal)
    IN  [k \in 1..N |->
            CSum([n \in 1..N |-> TimesMinusIPow(signal[n], (n - 1) * (k - 1) * (4 \div N))])]

\* cp.fft.fftshift: entry k of the input moves to (k + N // 2) mod N.
\* (ifftshift: the inverse shift, by (N + 1) // 2.)
ifftshift(x) ==
    LET N == Len(x)
    IN  [i \in 1..N |-> x[((i - 1 - ((N + 1) \div 2) + N) % N) + 1]]
fftshift(x) ==
    LET N == Len(x)
    IN  [i \in 1..N |-> x[((i - 1 - (N \div 2) + N) % N) + 1]]

\* cp.fft.fftfreq(N, d = 1 / sample_rate): [0, 1, .., (N-1)//2, -(N//2), .., -1] * fs / N.
fftfreq(N, sample_rate_sps) ==
    [i \in 1..N |->
        LET k == IF i - 1 <= (N - 1) \div 2 THEN i - 1 ELSE i - 1 - N
        IN  (k * sample_rate_sps) \div N]

\* Returns <<freq_bins, psd_linear>>; psd_linear[k] is the fraction
\* power / (N * sample_rate * window_power_correction).
compute_psd(fft_result, sample_rate_sps, power_correction) ==
    LET N == Len(fft_result)
        power == [k \in 1..N |-> fft_result[k][1] * fft_result[k][1]
                                  + fft_result[k][2] * fft_result[k][2]]
        psd_linear == [k \in 1..N |-> <<power[k], N * sample_rate_sps * power_correction>>]
        freq_bins == fftfreq(N, sample_rate_sps)
    IN  <<fftshift(freq_bins), fftshift(psd_linear)>>

floor_db == -120

\* ceil(100 * 10^(j/10)), j = 0 .. 9: the mantissa at which the dB value
\* reaches the next whole number within a decade.
DbMantissa == <<100, 126, 159, 200, 252, 317, 399, 502, 631, 795>>

\* floor(10 * log10(num / den)) for num / den >= 1, counted up from dB value db.
RECURSIVE DbUp(_, _, _)
DbUp(num, den, db) ==
    IF num >= 10 * den THEN DbUp(num, 10 * den, db + 10)
    ELSE db + Cardinality({j \in 2..10 : 100 * num >= DbMantissa[j] * den})

\* The same for num / den < 1, never going below the floor.
RECURSIVE DbDown(_, _, _, _)
DbDown(num, den, db, floor) ==
    IF db <= floor THEN floor
    ELSE IF num >= den THEN DbUp(num, den, db)
    ELSE DbDown(10 * num, den, db - 10, floor)

\* 10 * log10(max(linear, 10 ** (floor / 10))) of the fraction linear.
linear_to_db_floor(linear, floor) ==
    IF linear[1] <= 0 THEN floor
    ELSE Max2(floor, DbDown(linear[1], linear[2], 0, floor))

\* (linear_to_db_unclipped: the same clipped ten dB lower.)
linear_to_db_unclipped(linear) == linear_to_db_floor(linear, floor_db - 10)
linear_to_db(linear) == linear_to_db_floor(linear, floor_db)

\* The outcome [exc, freq_bins, psd_db, psd_linear] of compute_fft_psd:
\* frame.iq * window raises ValueError when the shapes do not broadcast.
compute_fft_psd(frame, win, power_correction) ==
    IF broadcast_len(Len(frame.iq), Len(win)) = -1
    THEN [exc |-> "ValueError", freq_bins |-> <<>>, psd_db |-> <<>>, psd_linear |-> <<>>]
    ELSE The({[exc |-> "none", freq_bins |-> psd[1],
               psd_db |-> [k \in DOMAIN psd[2] |-> linear_to_db(psd[2][k])],
               psd_linear |-> psd[2]] :
              psd \in {compute_psd(fft_result, frame.sample_rate_sps, power_correction) :
                       fft_result \in {compute_fft(windowed) :
                                       windowed \in {apply_window(frame.iq, win)}}}})

\* Lines 101-105 of compute_fft_psd, from the FFT result on:
\* <<freq_bins, psd_db, psd_linear>>.
psd_of_fft(fft_result, sample_rate_sps, power_correction) ==
    The({<<psd[1], [k \in DOMAIN psd[2] |-> linear_to_db(psd[2][k])], psd[2]>> :
         psd \in {compute_psd(fft_result, sample_rate_sps, power_correction)}})

----------------------------------------------------------------------------
(* dsp/smoothing.py, dsp/features.py, common/timebase.py                   *)

AlphaScale == 100

\* EMAFilter.update: the new _state, which is also the value returned.
\* alpha is an integer number of hundredths; state is None or Some(vector).
\* (EMAFilter_update_swapped: the two weights exchanged.)
EMAFilter_update_swapped(state, alpha, new_value) ==
    IF state = None
    THEN Some(new_value)
    ELSE Some([k \in DOMAIN new_value |->
                ((AlphaScale - alpha) * new_value[k] + alpha * state[1][k]) \div AlphaScale])
EMAFilter_update(state, alpha, new_value) ==
    IF state = None
    THEN Some(new_value)
    ELSE Some([k \in DOMAIN new_value |->
                (alpha * new_value[k] + (AlphaScale - alpha) * state[1][k]) \div AlphaScale])

\* EMAFilter.reset
EMAFilter_reset == None

\* The array EMAFilter.update binds _state to and returns: a fresh object on
\* every call (new_value.copy() on the first, the value of the arithmetic
\* expression later), whatever object ref _state was bound to before.
\* Returns <<objects, Some(object)>>.
\* (ema_store_in_place: the same writing into the old array, if there is one.)
ema_store_in_place(objects, ref, value) ==
    IF ref = None
    THEN <<Append(objects, value), Some(Len(objects) + 1)>>
    ELSE <<[objects EXCEPT ![ref[1]] = value], ref>>
ema_store(objects, ref, value) ==
    <<Append(objects, value), Some(Len(objects) + 1)>>

\* The arrays of a returned record as its holder reads them now.  (The other
\* fields of a record are numbers, None, and lists that process_frame built
\* for this record alone and keeps no reference to.)
record_now(objects, h) ==
    [frame_id |-> h.frame_id,
     psd_db |-> objects[h.psd_db],
     psd_smoothed_db |-> objects[h.psd_smoothed_db]]

RECURSIVE Insert(_, _)
Insert(x, sorted) ==
    IF sorted = <<>> THEN <<x>>
    ELSE IF x <= Head(sorted) THEN <<x>> \o sorted
    ELSE <<Head(sorted)>> \o Insert(x, Tail(sorted))

RECURSIVE sorted_values(_)
sorted_values(s) == IF s = <<>> THEN <<>> ELSE Insert(Head(s), sorted_values(Tail(s)))

\* cp.percentile(psd_db, percentile): linear interpolation between the two
\* order statistics around position percentile / 100 * (N - 1).
estimate_noise_floor(psd_db, percentile) ==
    LET sorted == sorted_values(psd_db)
        N == Len(sorted)
        pos == percentile * (N - 1)
        lo == pos \div 100
        hi == Min2(lo + 1, N - 1)
    IN  sorted[lo + 1] + ((pos % 100) * (sorted[hi + 1] - sorted[lo + 1])) \div 100

\* The indexes of the bins inside the band, taken to baseband.
band_mask(freq_bins, band, center_freq_hz) ==
    LET band_start_baseband == band.start_hz - center_freq_hz
        band_end_baseband == band.end_hz - center_freq_hz
    IN  {k \in DOMAIN freq_bins :
            freq_bins[k] >= band_start_baseband /\ freq_bins[k] <= band_end_baseband}

RECURSIVE SetSum(_, _)
SetSum(f, S) == IF S = {} THEN 0
                ELSE LET k == CHOOSE x \in S : TRUE IN f[k] + SetSum(f, S \ {k})

compute_bandpower(freq_bins, psd_linear, band, center_freq_hz) ==
    LET mask == band_mask(freq_bins, band, center_freq_hz)
        bin_width == IF Len(freq_bins) > 1 THEN freq_bins[2] - freq_bins[1] ELSE 1
        power_num == SetSum([k \in DOMAIN psd_linear |-> psd_linear[k][1]], mask) * bin_width
    IN  linear_to_db_floor(<<power_num, psd_linear[1][2]>>, -120)

threshold_db == 6

\* (compute_occupancy_empty_full: an empty band reported as fully occupied.)
compute_occupancy_empty_full(freq_bins, psd_db, band, center_freq_hz, noise_floor_db) ==
    LET mask == band_mask(freq_bins, band, center_freq_hz)
        occupied == Cardinality({k \in mask : psd_db[k] > noise_floor_db + threshold_db})
        total == Cardinality(mask)
    IN  IF total = 0 THEN 100 ELSE (occupied * 100) \div total
compute_occupancy(freq_bins, psd_db, band, center_freq_hz, noise_floor_db) ==
    LET mask == band_mask(freq_bins, band, center_freq_hz)
        occupied == Cardinality({k \in mask : psd_db[k] > noise_floor_db + threshold_db})
        total == Cardinality(mask)
    IN  IF total = 0 THEN 0 ELSE (occupied * 100) \div total

\* Returns <<bandpower_db, occupancy_pct>>, one entry per band, in order.
\* (extract_band_features_nonempty: the same over the bands that hold a bin.)
extract_band_features_nonempty(freq_bins, psd_db, psd_linear, band_list, center_freq_hz, noise_floor_db) ==
    LET kept == SelectSeq(band_list,
                    LAMBDA b : band_mask(freq_bins, b, center_freq_hz) # {})
    IN  <<[i \in 1..Len(kept) |->
              compute_bandpower(freq_bins, psd_linear, kept[i], center_freq_hz)],
          [i \in 1..Len(kept) |->
              compute_occupancy(freq_bins, psd_db, kept[i], center_freq_hz, noise_floor_db)]>>
extract_band_features(freq_bins, psd_db, psd_linear, band_list, center_freq_hz, noise_floor_db) ==
    <<[i \in 1..Len(band_list) |->
          compute_bandpower(freq_bins, psd_linear, band_list[i], center_freq_hz)],
      [i \in 1..Len(band_list) |->
          compute_occupancy(freq_bins, psd_db, band_list[i], center_freq_hz, noise_floor_db)]>>

Abs(x) == IF x < 0 THEN -x ELSE x

default_tolerance_ns == 1000000000

\* The loop of align_gps_to_iq over the fixes from position idx on (idx from
\* 0): <<min_delta, min_idx>>, each None while no fix was seen (float('inf')
\* and None in the code).
RECURSIVE align_scan(_, _, _, _, _)
align_scan(iq_timestamp_ns, fixes, idx, min_delta, min_idx) ==
    IF idx >= Len(fixes) THEN <<min_delta, min_idx>>
    ELSE LET delta == Abs(fixes[idx + 1].gps_timestamp_ns - iq_timestamp_ns)
         IN  IF min_delta = None \/ delta < min_delta[1]
             THEN align_scan(iq_timestamp_ns, fixes, idx + 1, Some(delta), Some(idx))
             ELSE align_scan(iq_timestamp_ns, fixes, idx + 1, min_delta, min_idx)

\* align_gps_to_iq: None, or Some(index from 0) of the fix it picks.
\* (align_gps_to_iq_exclusive: the same with the tolerance itself rejected.)
align_gps_to_iq_exclusive(iq_timestamp_ns, fixes, tolerance_ns) ==
    IF fixes = <<>> THEN None
    ELSE LET scan == align_scan(iq_timestamp_ns, fixes, 0, None, None)
         IN  IF scan[1][1] < tolerance_ns THEN scan[2] ELSE None
align_gps_to_iq(iq_timestamp_ns, fixes, tolerance_ns) ==
    IF fixes = <<>> THEN None
    ELSE LET scan == align_scan(iq_timestamp_ns, fixes, 0, None, None)
         IN  IF scan[1][1] <= tolerance_ns THEN scan[2] ELSE None

----------------------------------------------------------------------------
(* dsp/pipeline.py *)

gps_buffer_cap == 100

\* DSPPipeline.add_gps_fix: the list it leaves.
\* (add_gps_fix_keep_oldest: a full buffer that drops the new fix instead.)
add_gps_fix_keep_oldest(fixes, fix) ==
    IF Len(fixes) >= gps_buffer_cap THEN fixes ELSE Append(fixes, fix)
add_gps_fix(fixes, fix) ==
    LET appended_fixes == Append(fixes, fix)
    IN  IF Len(appended_fixes) > gps_buffer_cap
        THEN SubSeq(appended_fixes, Len(appended_fixes) - gps_buffer_cap + 1,
                    Len(appended_fixes))
        ELSE appended_fixes

\* Step 5 of process_frame: <<lat_deg, lon_deg>> of the most recent fix.
\* (attach_position_oldest: the same reading gps_fixes[0].)
attach_position_oldest(fixes) ==
    IF fixes # <<>>
    THEN <<Some(fixes[1].lat_deg), Some(fixes[1].lon_deg)>>
    ELSE <<None, None>>
attach_position(fixes) ==
    IF fixes # <<>>
    THEN <<Some(fixes[Len(fixes)].lat_deg), Some(fixes[Len(fixes)].lon_deg)>>
    ELSE <<None, None>>

\* DSPPipeline.process_frame: the outcome [exc, ret, ema_state].
process_frame(frame, win, power_correction, alpha, percentile, band_list, state, fixes) ==
    The({IF psd.exc # "none"
         THEN [exc |-> psd.exc, ret |-> None, ema_state |-> state]
         ELSE The({The({The({
                  [exc |-> "none",
                   ret |-> FrameFeatures(frame.frame_id, frame.timestamp_ns,
                               attach_position(fixes)[1], attach_position(fixes)[2],
                               psd.freq_bins, psd.psd_db, new_state[1], noise_floor_db,
                               band_features[1], band_features[2], None),
                   ema_state |-> new_state] :
                  band_features \in {extract_band_features(psd.freq_bins, psd.psd_db,
                                         psd.psd_linear, band_list, frame.center_freq_hz,
                                         noise_floor_db)}}) :
                  noise_floor_db \in {estimate_noise_floor(new_state[1], percentile)}}) :
                  new_state \in {EMAFilter_update(state, alpha, psd.psd_db)}}) :
         psd \in {compute_fft_psd(frame, win, power_correction)}})

----------------------------------------------------------------------------
(* geo/aggregate.py *)

TileMetrics(tile_id, tile_x, tile_y, lat_min, lat_max, lon_min, lon_max, frame_count, timestamp_min_ns, timestamp_max_ns, bandpower_mean_db, bandpower_max_db, occupancy_mean_pct, anomaly_score_max) ==
    [tile_id |-> tile_id, tile_x |-> tile_x, tile_y |-> tile_y,
     lat_min |-> lat_min, lat_max |-> lat_max,
     lon_min |-> lon_min, lon_max |-> lon_max,
     frame_count |-> frame_count,
     timestamp_min_ns |-> timestamp_min_ns, timestamp_max_ns |-> timestamp_max_ns,
     bandpower_mean_db |-> bandpower_mean_db, bandpower_max_db |-> bandpower_max_db,
     occupancy_mean_pct |-> occupancy_mean_pct,
     anomaly_score_max |-> anomaly_score_max]

\* zip(features.bandpower_db, features.occupancy_pct) stops at the shorter list.
zip_len(features) == Min2(Len(features.bandpower_db), Len(features.occupancy_pct))

\* The dict add_frame builds.  The keys bandpower_db_i and occupancy_pct_i,
\* i = 0 .. zip_len-1, are the entries i+1 of the two sequences; the key
\* anomaly_score is absent when the field is None.
Row(features, tile) ==
    [frame_id |-> features.frame_id,
     timestamp_ns |-> features.timestamp_ns,
     lat_deg |-> features.lat_deg[1],
     lon_deg |-> features.lon_deg[1],
     tile_id |-> tile[3],
     tile_x |-> tile[1],
     tile_y |-> tile[2],
     noise_floor_db |-> features.noise_floor_db,
     bandpower_db |-> SubSeq(features.bandpower_db, 1, zip_len(features)),
     occupancy_pct |-> SubSeq(features.occupancy_pct, 1, zip_len(features)),
     anomaly_score |-> features.anomaly_score]

\* TileAggregator.add_frame: the buffer it leaves.
\* (add_frame_unbounded: the same without the out_of_bounds return.)
add_frame_unbounded(buffer, grid, features) ==
    IF features.lat_deg = None \/ features.lon_deg = None
    THEN buffer
    ELSE Append(buffer, Row(features, get_tile(grid, features.lat_deg[1], features.lon_deg[1])))
add_frame(buffer, grid, features) ==
    IF features.lat_deg = None \/ features.lon_deg = None
    THEN buffer
    ELSE LET tile == get_tile(grid, features.lat_deg[1], features.lon_deg[1])
         IN  IF tile[3] = "out_of_bounds"
             THEN buffer
             ELSE Append(buffer, Row(features, tile))

\* TileAggregator.should_aggregate
\* (should_aggregate_strict: the comparison taken strictly.)
should_aggregate_strict(buffer, window_frames) == Len(buffer) > window_frames
should_aggregate(buffer, window_frames) == Len(buffer) >= window_frames

\* Column bandpower_db_i / occupancy_pct_i (i from 0) exists in the DataFrame
\* built from the buffer iff some row has the key.
has_band_column(buffer, i) == \E k \in DOMAIN buffer : Len(buffer[k].bandpower_db) > i

has_anomaly_column(buffer) == \E k \in DOMAIN buffer : buffer[k].anomaly_score # None

\* The rows of one group of df.groupby('tile_id'), in buffer order.
\* (group_rows_unkeyed: a grouping that forgets the key.)
group_rows_unkeyed(buffer, tile_id) == buffer
group_rows(buffer, tile_id) == SelectSeq(buffer, LAMBDA r : r.tile_id = tile_id)

\* The non-null values of a band column within a group.
bandpower_values(rows, i) ==
    LET sel == SelectSeq(rows, LAMBDA r : Len(r.bandpower_db) > i)
    IN  [k \in 1..Len(sel) |-> sel[k].bandpower_db[i + 1]]

occupancy_values(rows, i) ==
    LET sel == SelectSeq(rows, LAMBDA r : Len(r.occupancy_pct) > i)
    IN  [k \in 1..Len(sel) |-> sel[k].occupancy_pct[i + 1]]

anomaly_values(rows) ==
    LET sel == SelectSeq(rows, LAMBDA r : r.anomaly_score # None)
    IN  [k \in 1..Len(sel) |-> sel[k].anomaly_score[1]]

\* groupby 'mean' and 'max' skip nulls; over no value they give NaN.
agg_mean(vals) == <<SeqSum(vals), Len(vals)>>
agg_max(vals) == IF vals = <<>> THEN NaN ELSE Num(SeqMax(vals))

\* One TileMetrics, built from the aggregated row of a group.
tile_metric(buffer, grid, nb, tile_id) ==
    LET rows == group_rows(buffer, tile_id)
        tile == grid.tile_lookup[tile_id]
        ts == [k \in 1..Len(rows) |-> rows[k].timestamp_ns]
    IN  TileMetrics(tile_id, rows[1].tile_x, rows[1].tile_y,
                    tile.lat_min, tile.lat_max, tile.lon_min, tile.lon_max,
                    Len(rows), SeqMin(ts), SeqMax(ts),
                    [i \in 1..nb |-> agg_mean(bandpower_values(rows, i - 1))],
                    [i \in 1..nb |-> agg_max(bandpower_values(rows, i - 1))],
                    [i \in 1..nb |-> agg_mean(occupancy_values(rows, i - 1))],
                    IF has_anomaly_column(buffer)
                    THEN Some(agg_max(anomaly_values(rows)))
                    ELSE None)

\* TileAggregator.aggregate: the outcomes [exc, ret, frame_buffer] it can have.
\* grouped.agg raises KeyError when agg_dict names a column the DataFrame
\* lacks; the order of the groups is left open by the groupby.
aggregate(buffer, grid, nb) ==
    IF Len(buffer) = 0
    THEN {[exc |-> "none", ret |-> <<>>, frame_buffer |-> buffer]}
    ELSE IF \E i \in 0..(nb - 1) : ~has_band_column(buffer, i)
    THEN {[exc |-> "KeyError", ret |-> None, frame_buffer |-> buffer]}
    ELSE {[exc |-> "none",
           ret |-> LET known == SelectSeq(order, LAMBDA id : id \in DOMAIN grid.tile_lookup)
                   IN  [k \in 1..Len(known) |-> tile_metric(buffer, grid, nb, known[k])],
           frame_buffer |-> <<>>] :
          order \in Orderings({buffer[k].tile_id : k \in DOMAIN buffer})}

\* TileAggregator.flush
flush(buffer, grid, nb) == aggregate(buffer, grid, nb)

\* A record as the pipeline builds it for an aggregator of nb band_list.
well_formed(features, nb) ==
    Len(features.bandpower_db) = nb /\ Len(features.occupancy_pct) = nb

frame_count_sum(tiles) == SeqSum([k \in 1..Len(tiles) |-> tiles[k].frame_count])

----------------------------------------------------------------------------
(* Bounds and inputs *)

MaxAppended == 3

\* The float results that are exact.
NoRounding == <<0, 0, 0, 0>>

\* <<center_lat, center_lon, tile_size_meters, grid_extent_meters, rounding>>
GridConfigs == {<<0, 0, 1, 2, NoRounding>>}
WindowConfigs == {1, 2}
NumBandsConfigs == {2}

\* Positions of caller-built records that add_frame takes: inside tile
\* (0,0), and the upper corner of the grid (where the index is clamped).
InsidePositions == {<<Some(-1), Some(-1)>>, <<Some(2), Some(2)>>}

\* Positions add_frame skips: no latitude, no longitude, outside on an axis.
SkippedPositions ==
    {<<None, Some(0)>>, <<Some(0), None>>,
     <<Some(3), Some(0)>>, <<Some(0), Some(-3)>>}

\* <<timestamp_ns, bandpower_db, occupancy_pct, anomaly_score>>: well-formed
\* payloads for two bands, one with three bands, two with unequal lists (the
\* zip of the first keeps one band, the zip of the second keeps two).
PayloadInputs ==
    {<<1, <<-90, -80>>, <<0, 50>>, None>>,
     <<2, <<-90, -80>>, <<0, 50>>, None>>,
     <<1, <<-70, -100>>, <<100, 0>>, Some(1)>>,
     <<1, <<-90, -80, -70>>, <<0, 50, 100>>, None>>,
     <<2, <<-90, -80, -70>>, <<50>>, None>>,
     <<1, <<-90, -80, -70>>, <<0, 50>>, None>>}

SkippedPayload == <<1, <<-90, -80>>, <<0, 50>>, None>>

FeatureInput(p, b) ==
    FrameFeatures(b[1], b[1], p[1], p[2], <<>>, <<>>, <<>>, -100, b[2], b[3], b[4])

FeatureInputs ==
    {FeatureInput(p, b) : p \in InsidePositions, b \in PayloadInputs}
    \cup {FeatureInput(p, SkippedPayload) : p \in SkippedPositions}

\* <<fft_size, window_type, smoothing_factor, noise_floor_percentile, bands>>:
\* the band lists hold a band of three bins, one of no bin and one of one bin.
LowBand == Band("low", 94, 100)
NarrowBand == Band("narrow", 101, 102)
UpBand == Band("up", 102, 104)

DefaultPipelineConfig == <<4, "hann", 50, 10, <<LowBand, NarrowBand>>>>

PipelineConfigs ==
    {DefaultPipelineConfig,
     <<4, "hamming", 100, 10, <<NarrowBand, UpBand, LowBand>>>>,
     <<4, "blackman", 50, 50, <<UpBand>>>>}

MaxFrames == 2
MaxFixes == 2
MaxFixLog == 103

Zero == <<0, 0>>
One == <<1, 0>>

\* Sample blocks: silence, a tone at a quarter of the sample rate, a block
\* of one sample (a constant, once broadcast) and a block of two samples.
IqInputs ==
    {<<Zero, Zero, Zero, Zero>>,
     <<One, <<0, 1>>, <<-1, 0>>, <<0, -1>>>>,
     <<One>>,
     <<One, One>>}

\* Frames are stamped half a second apart.
FrameTimestamp(frame_id) == frame_id * 500000000

FrameInputs(frame_id) ==
    {IQFrame(frame_id, FrameTimestamp(frame_id), 100, 12, None, iq) : iq \in IqInputs}

\* A fix inside tile (0,0), stamped before the first frame, and a fix
\* outside the grid, stamped with the second frame.
FixInputs ==
    {GPSFix(0, -1, -1), GPSFix(1000000000, 3, 0)}

\* The k-th fix a driver's GPS source delivers after construction or a
\* reset: alternately the fix outside the grid and the fix inside it.
DriverFix(k) == IF k % 2 = 1 THEN GPSFix(1000000000, 3, 0) ELSE GPSFix(0, -1, -1)

\* The k-th fix of a long run of distinct fixes.
StreamFix(k) == GPSFix(k, (k % 5) - 2, (k % 3) - 1)

\* Inputs of the alignment: frames stamped one second and one second plus a
\* nanosecond; fixes a second before, a nanosecond either side of the first
\* frame (a tie), and a second after the second frame; the default
\* tolerance and a tolerance of one nanosecond.
MaxAlignFixes == 3

AlignFrameTimestamps == {1000000000, 1000000001}

AlignFixTimestamps == {0, 999999999, 1000000001, 2000000001}

AlignTolerances == {default_tolerance_ns, 1}

RECURSIVE SeqsUpTo(_, _)
SeqsUpTo(S, n) ==
    IF n = 0 THEN {<<>>}
    ELSE SeqsUpTo(S, n - 1) \cup {Append(q, x) : q \in SeqsUpTo(S, n - 1), x \in S}

AlignFixLists == SeqsUpTo({GPSFix(t, 0, 0) : t \in AlignFixTimestamps}, MaxAlignFixes)

\* Grids <<center_lat, center_lon, tile_size_meters, grid_extent_meters>> of
\* every tile size and extent up to the bounds (extents that are no multiple
\* of the tile size and tiles larger than the extent included); points from
\* one step below the grid bounds to one step above the grid bounds and the
\* bounds of the last tile, on both axes.
MaxTileSize == 3
MaxExtent == 4
MaxGridFrames == 1

GridCenters == {<<1, -1>>}

TileGridConfigs ==
    {<<c[1], c[2], t, e, NoRounding>> :
        c \in GridCenters, t \in 1..MaxTileSize, e \in 1..MaxExtent}

PointRange(lo, hi, tile_size, n) ==
    (lo - 1)..(IF lo + n * tile_size > hi THEN lo + n * tile_size + 1 ELSE hi + 1)

\* A well-formed record at the centre of the grid.
CenterRecord(grid) ==
    FeatureInput(<<Some(grid.center_lat), Some(grid.center_lon)>>, SkippedPayload)

\* Grids whose bounds are float results that may be displaced: the exact
\* bounds are even (an even centre, an even extent), one bound of an axis is
\* displaced by one unit either way or none is.  The points of such a grid
\* are the even coordinates from one step below the exact bounds to one step
\* above them and above the last tile, and the two bounds the grid itself
\* holds.
AxisRoundings == {<<0, 0>>, <<1, 0>>, <<-1, 0>>, <<0, 1>>, <<0, -1>>}

Roundings == {<<a[1], a[2], o[1], o[2]>> : a \in AxisRoundings, o \in AxisRoundings}

RoundedGridCenters == {<<2, -2>>}

RoundedGridConfigs ==
    {<<c[1], c[2], t, e, r>> :
        c \in RoundedGridCenters, t \in 1..MaxTileSize,
        e \in {x \in 1..MaxExtent : x % 2 = 0}, r \in Roundings}

RoundedPoints(lo, hi, exact_lo, exact_hi, tile_size, n) ==
    {lo, hi} \cup
    {exact_lo - 2 + 2 * j :
        j \in 0..((Max2(exact_hi, exact_lo + n * tile_size) - exact_lo) \div 2 + 2)}

\* Inputs of the spectral estimate alone.  Frames of 1, 2 and 4 samples with
\* the window of their length, of every type; FFT results of every length up
\* to MaxBins (odd lengths included) at a sample rate the length divides and
\* at one it need not divide.
MaxBins == 5

SampleInputs == {Zero, <<0, 1>>}

WindowTypes == {"hann", "hamming", "blackman"}

FftSizes == {1, 2, 4}

EstimateFrames ==
    {IQFrame(1, 1, 100, 12, None, iq) :
        iq \in UNION {[1..n -> SampleInputs] : n \in FftSizes}}

FftResults == UNION {[1..n -> {Zero, <<1, 1>>}] : n \in 1..MaxBins}

SampleRates == {12, 60}

\* The driver loop: MaxIterations frames of fft_size samples (silence or the
\* tone), before each of which the GPS source delivers a fix or none.
MaxIterations == 3

DriverFrames(frame_id) ==
    {IQFrame(frame_id, FrameTimestamp(frame_id), 100, 12, None, iq) :
        iq \in {<<Zero, Zero, Zero, Zero>>, <<One, <<0, 1>>, <<-1, 0>>, <<0, -1>>>>}}

----------------------------------------------------------------------------
(* Construction *)

\* DSPPipeline.__init__
InitPipeline(c) ==
    /\ fft_size = c[1]
    /\ window_type = c[2]
    /\ smoothing_factor = c[3]
    /\ noise_floor_percentile = c[4]
    /\ bands = c[5]
    /\ window = get_window(c[2], c[1])
    /\ window_power_correction = window_power(get_window(c[2], c[1]))
    /\ ema_state = None
    /\ gps_fixes = <<>>
    /\ fix_log = <<>>
    /\ submitted = 0
    /\ heap = <<>>
    /\ state_ref = None
    /\ held = <<>>

\* TileGrid.__init__ and TileAggregator.__init__
InitAggregator(g, w, nb) ==
    /\ tile_grid = TileGrid(g[1], g[2], g[3], g[4], g[5])
    /\ aggregate_window_frames = w
    /\ num_bands = nb
    /\ frame_buffer = <<>>
    /\ repeat = FALSE
    /\ tainted = FALSE
    /\ appended = 0
    /\ emitted = 0

InitObserved ==
    /\ op = "init"
    /\ arg = None
    /\ ret = None
    /\ exc = "none"

----------------------------------------------------------------------------
(* Operations *)

AddFrame(features) ==
    /\ appended < MaxAppended
    /\ frame_buffer' = add_frame(frame_buffer, tile_grid, features)
    /\ op' = "add_frame"
    /\ arg' = Some(features)
    /\ ret' = None
    /\ exc' = "none"
    /\ repeat' = FALSE
    /\ tainted' = (tainted \/ (frame_buffer' # frame_buffer /\ ~well_formed(features, num_bands)))
    /\ appended' = appended + (Len(frame_buffer') - Len(frame_buffer))
    /\ UNCHANGED <<pipeVars, aggCfgVars, emitted>>

Aggregate ==
    /\ \E o \in aggregate(frame_buffer, tile_grid, num_bands) :
        /\ frame_buffer' = o.frame_buffer
        /\ ret' = o.ret
        /\ exc' = o.exc
        /\ emitted' = emitted + frame_count_sum(o.ret)
        /\ tainted' = (tainted /\ o.frame_buffer # <<>>)
    /\ op' = "aggregate"
    /\ arg' = None
    /\ repeat' = (op = "aggregate")
    /\ UNCHANGED <<pipeVars, aggCfgVars, appended>>

Flush ==
    /\ \E o \in flush(frame_buffer, tile_grid, num_bands) :
        /\ frame_buffer' = o.frame_buffer
        /\ ret' = o.ret
        /\ exc' = o.exc
        /\ emitted' = emitted + frame_count_sum(o.ret)
        /\ tainted' = (tainted /\ o.frame_buffer # <<>>)
    /\ op' = "flush"
    /\ arg' = None
    /\ repeat' = (op = "flush")
    /\ UNCHANGED <<pipeVars, aggCfgVars, appended>>

AddGpsFix(fix) ==
    /\ gps_fixes' = add_gps_fix(gps_fixes, fix)
    /\ fix_log' = Append(fix_log, fix)
    /\ op' = "add_gps_fix"
    /\ arg' = Some(fix)
    /\ ret' = None
    /\ exc' = "none"
    /\ UNCHANGED <<cfgVars, ema_state, submitted, heapVars, aggVars>>

\* DSPPipeline.process_frame.  The record holds the array psd_db that
\* compute_fft_psd allocated and the array that EMAFilter.update returned,
\* which is the one _state is bound to.
ProcessFrame(frame) ==
    /\ \E o \in {process_frame(frame, window, window_power_correction, smoothing_factor,
                               noise_floor_percentile, bands, ema_state, gps_fixes)} :
           /\ ema_state' = o.ema_state
           /\ ret' = IF o.exc = "none" THEN Some(o.ret) ELSE None
           /\ exc' = o.exc
           /\ IF o.exc # "none"
              THEN UNCHANGED heapVars
              ELSE \E st \in {ema_store(Append(heap, o.ret.psd_db), state_ref,
                                        o.ema_state[1])} :
                       /\ heap' = st[1]
                       /\ state_ref' = st[2]
                       /\ held' = Append(held, [frame_id |-> frame.frame_id,
                                                psd_db |-> Len(heap) + 1,
                                                psd_smoothed_db |-> st[2][1]])
    /\ submitted' = submitted + 1
    /\ op' = "process_frame"
    /\ arg' = Some(frame)
    /\ UNCHANGED <<cfgVars, gps_fixes, fix_log, aggVars>>

\* DSPPipeline.reset
\* (Reset_keeps_fixes: the same without self.gps_fixes = [].)
Reset_keeps_fixes ==
    /\ ema_state' = EMAFilter_reset
    /\ op' = "reset"
    /\ arg' = None
    /\ ret' = None
    /\ exc' = "none"
    /\ state_ref' = None
    /\ UNCHANGED <<cfgVars, gps_fixes, fix_log, submitted, heap, held, aggVars>>
Reset ==
    /\ ema_state' = EMAFilter_reset
    /\ gps_fixes' = <<>>
    /\ fix_log' = <<>>
    /\ op' = "reset"
    /\ arg' = None
    /\ ret' = None
    /\ exc' = "none"
    /\ state_ref' = None
    /\ UNCHANGED <<cfgVars, submitted, heap, held, aggVars>>

\* A call of align_gps_to_iq (a function of its arguments alone).
AlignGpsToIq(iq_timestamp_ns, fixes, tolerance_ns) ==
    /\ op' = "align_gps_to_iq"
    /\ arg' = <<iq_timestamp_ns, fixes, tolerance_ns>>
    /\ ret' = align_gps_to_iq(iq_timestamp_ns, fixes, tolerance_ns)
    /\ exc' = "none"
    /\ UNCHANGED <<pipeVars, aggVars>>

\* The holder of returned record k writes 0 into entry 0 of one of its PSD
\* arrays, in place (field is "psd_db" or "psd_smoothed_db").  The array is
\* changed for every holder of the object, the smoother included.
WriteInPlace(k, field) ==
    /\ k \in DOMAIN held
    /\ heap[held[k][field]][1] # 0
    /\ heap' = [heap EXCEPT ![held[k][field]][1] = 0]
    /\ ema_state' = IF state_ref = Some(held[k][field])
                    THEN Some(heap'[held[k][field]])
                    ELSE ema_state
    /\ op' = "write_in_place"
    /\ arg' = Some(held[k][field])
    /\ ret' = None
    /\ exc' = "none"
    /\ UNCHANGED <<cfgVars, gps_fixes, fix_log, submitted, state_ref, held, aggVars>>

\* A call of TileGrid.get_tile.
GetTile(lat, lon) ==
    /\ op' = "get_tile"
    /\ arg' = <<lat, lon>>
    /\ ret' = get_tile(tile_grid, lat, lon)
    /\ exc' = "none"
    /\ UNCHANGED <<pipeVars, aggVars>>

\* A call of compute_fft_psd.
ComputeFftPsd(frame, win) ==
    /\ \E o \in {compute_fft_psd(frame, win, window_power(win))} :
          /\ ret' = IF o.exc = "none" THEN <<o.freq_bins, o.psd_db, o.psd_linear>> ELSE None
          /\ exc' = o.exc
    /\ op' = "compute_fft_psd"
    /\ arg' = <<frame, win>>
    /\ UNCHANGED <<pipeVars, aggVars>>

\* The same from the FFT result on.
PsdOfFft(fft_result, sample_rate_sps, power_correction) ==
    /\ op' = "psd_of_fft"
    /\ arg' = <<fft_result, sample_rate_sps, power_correction>>
    /\ ret' = psd_of_fft(fft_result, sample_rate_sps, power_correction)
    /\ exc' = "none"
    /\ UNCHANGED <<pipeVars, aggVars>>

----------------------------------------------------------------------------
(* The aggregator driven by an arbitrary caller *)

Init ==
    /\ InitPipeline(DefaultPipelineConfig)
    /\ \E g \in GridConfigs, w \in WindowConfigs, nb \in NumBandsConfigs :
            InitAggregator(g, w, nb)
    /\ InitObserved

Next ==
    \/ \E features \in FeatureInputs : AddFrame(features)
    \/ Aggregate
    \/ Flush

Spec == Init /\ [][Next]_vars

----------------------------------------------------------------------------
(* The pipeline feeding the aggregator, as a driver loop does: the fixes   *)
(* of its GPS source and frames in any order, each record handed to        *)
(* add_frame once produced.                                                *)

PipeInit ==
    /\ \E c \in PipelineConfigs : InitPipeline(c)
    /\ \E g \in GridConfigs, nb \in NumBandsConfigs : InitAggregator(g, 2, nb)
    /\ InitObserved

PipeAddGpsFix == Len(fix_log) < MaxFixes /\ AddGpsFix(DriverFix(Len(fix_log) + 1))

PipeProcessFrame ==
    submitted < MaxFrames /\ \E frame \in FrameInputs(submitted + 1) : ProcessFrame(frame)

PipeAddFrame == op = "process_frame" /\ exc = "none" /\ AddFrame(ret[1])

PipeNext ==
    \/ PipeAddGpsFix
    \/ PipeProcessFrame
    \/ Reset
    \/ PipeAddFrame
    \/ Aggregate
    \/ Flush

PipeSpec == PipeInit /\ [][PipeNext]_vars

----------------------------------------------------------------------------
(* The fix buffer over a long run of fixes *)

RingInit ==
    /\ InitPipeline(DefaultPipelineConfig)
    /\ \E g \in GridConfigs, nb \in NumBandsConfigs : InitAggregator(g, 2, nb)
    /\ InitObserved

RingAddGpsFix == Len(fix_log) < MaxFixLog /\ AddGpsFix(StreamFix(Len(fix_log) + 1))

RingNext ==
    \/ RingAddGpsFix
    \/ Reset

RingSpec == RingInit /\ [][RingNext]_vars

----------------------------------------------------------------------------
(* The tolerance-based alignment applied to arbitrary arguments *)

AlignInit ==
    /\ InitPipeline(DefaultPipelineConfig)
    /\ \E g \in GridConfigs, nb \in NumBandsConfigs : InitAggregator(g, 2, nb)
    /\ InitObserved

AlignNext ==
    \E t \in AlignFrameTimestamps, fixes \in AlignFixLists, tol \in AlignTolerances :
        AlignGpsToIq(t, fixes, tol)

AlignSpec == AlignInit /\ [][AlignNext]_vars

----------------------------------------------------------------------------
(* The pipeline driven by an arbitrary caller, who keeps the records it is *)
(* given and may write into their arrays.                                  *)

AliasInit ==
    /\ \E c \in PipelineConfigs : InitPipeline(c)
    /\ \E g \in GridConfigs, nb \in NumBandsConfigs : InitAggregator(g, 2, nb)
    /\ InitObserved

AliasAddGpsFix == Len(fix_log) < MaxFixes /\ \E fix \in FixInputs : AddGpsFix(fix)

AliasProcessFrame ==
    submitted < MaxFrames /\ \E frame \in FrameInputs(submitted + 1) : ProcessFrame(frame)

AliasWriteInPlace ==
    \E k \in DOMAIN held, field \in {"psd_db", "psd_smoothed_db"} : WriteInPlace(k, field)

AliasNext ==
    \/ AliasAddGpsFix
    \/ AliasProcessFrame
    \/ Reset
    \/ AliasWriteInPlace

AliasSpec == AliasInit /\ [][AliasNext]_vars

----------------------------------------------------------------------------
(* A grid of any size, looked up at any point and used by an aggregator *)

GridInit ==
    /\ InitPipeline(DefaultPipelineConfig)
    /\ \E g \in TileGridConfigs : InitAggregator(g, 2, 2)
    /\ InitObserved

GridGetTile ==
    \E lat \in PointRange(tile_grid.lat_min, tile_grid.lat_max,
                          tile_grid.tile_size_lat, tile_grid.num_tiles_y),
       lon \in PointRange(tile_grid.lon_min, tile_grid.lon_max,
                          tile_grid.tile_size_lon, tile_grid.num_tiles_x) :
        GetTile(lat, lon)

GridAddFrame == appended < MaxGridFrames /\ AddFrame(CenterRecord(tile_grid))

GridNext ==
    \/ GridGetTile
    \/ GridAddFrame
    \/ Aggregate
    \/ Flush

GridSpec == GridInit /\ [][GridNext]_vars

----------------------------------------------------------------------------
(* A grid whose bounds carry float rounding, looked up at any point *)

RoundInit ==
    /\ InitPipeline(DefaultPipelineConfig)
    /\ \E g \in RoundedGridConfigs : InitAggregator(g, 2, 2)
    /\ InitObserved

RoundGetTile ==
    \E lat \in RoundedPoints(tile_grid.lat_min, tile_grid.lat_max,
                             tile_grid.lat_min - tile_grid.rounding[1],
                             tile_grid.lat_max - tile_grid.rounding[2],
                             tile_grid.tile_size_lat, tile_grid.num_tiles_y),
       lon \in RoundedPoints(tile_grid.lon_min, tile_grid.lon_max,
                             tile_grid.lon_min - tile_grid.rounding[3],
                             tile_grid.lon_max - tile_grid.rounding[4],
                             tile_grid.tile_size_lon, tile_grid.num_tiles_x) :
        GetTile(lat, lon)

RoundNext == RoundGetTile

RoundSpec == RoundInit /\ [][RoundNext]_vars

----------------------------------------------------------------------------
(* The spectral estimate applied to arbitrary frames and FFT results *)

EstimateInit ==
    /\ InitPipeline(DefaultPipelineConfig)
    /\ \E g \in GridConfigs, nb \in NumBandsConfigs : InitAggregator(g, 2, nb)
    /\ InitObserved

EstimateComputeFftPsd ==
    \E frame \in EstimateFrames, wtype \in WindowTypes :
        ComputeFftPsd(frame, get_window(wtype, Len(frame.iq)))

EstimatePsdOfFft ==
    \E fft_result \in FftResults, fs \in SampleRates : PsdOfFft(fft_result, fs, 1)

EstimateNext ==
    \/ EstimateComputeFftPsd
    \/ EstimatePsdOfFft

EstimateSpec == EstimateInit /\ [][EstimateNext]_vars

----------------------------------------------------------------------------
(* The driver loop of diagnose_tiles.py: per frame an optional add_gps_fix, *)
(* process_frame, add_frame and, if should_aggregate(), aggregate(); after  *)
(* the last frame, flush().  The last call made tells where the loop is.    *)

DriverInit ==
    /\ \E c \in PipelineConfigs :
          /\ InitPipeline(c)
          /\ \E g \in GridConfigs, w \in WindowConfigs : InitAggregator(g, w, Len(c[5]))
    /\ InitObserved

\* The loop is about to start an iteration, or has left its last one.
DriverAtLoopHead ==
    \/ op = "init"
    \/ op = "aggregate" /\ exc = "none"
    \/ op = "add_frame" /\ ~should_aggregate(frame_buffer, aggregate_window_frames)

DriverAddGpsFix ==
    /\ DriverAtLoopHead
    /\ submitted < MaxIterations
    /\ \E fix \in FixInputs : AddGpsFix(fix)

DriverProcessFrame ==
    /\ DriverAtLoopHead \/ op = "add_gps_fix"
    /\ submitted < MaxIterations
    /\ \E frame \in DriverFrames(submitted + 1) : ProcessFrame(frame)

DriverAddFrame == op = "process_frame" /\ exc = "none" /\ AddFrame(ret[1])

DriverAggregate ==
    /\ op = "add_frame"
    /\ should_aggregate(frame_buffer, aggregate_window_frames)
    /\ Aggregate

DriverFlush ==
    /\ DriverAtLoopHead
    /\ submitted = MaxIterations
    /\ Flush

DriverNext ==
    \/ DriverAddGpsFix
    \/ DriverProcessFrame
    \/ DriverAddFrame
    \/ DriverAggregate
    \/ DriverFlush

DriverSpec == DriverInit /\ [][DriverNext]_vars

----------------------------------------------------------------------------
(* Claims about the aggregator *)

AggregateCalls == {"aggregate", "flush"}

TileIdsOf(rows) == {rows[k].tile_id : k \in DOMAIN rows}

\* C1: after any call to aggregate() or flush(), from any buffer add_frame
\* can build, the buffer length is 0.
C1_BufferEmptyAfterAggregate ==
    op \in AggregateCalls => Len(frame_buffer) = 0

\* C2: at every point the frame_count of all summaries returned so far plus
\* the buffer length equals the number of rows add_frame appended.
C2_ExactlyOnce ==
    emitted + Len(frame_buffer) = appended

C2_Witness ==
    /\ op \in AggregateCalls /\ exc = "none" /\ Len(ret) = 2
    /\ emitted = 3 /\ appended = 3

\* C3: aggregate() on a non-empty buffer returns exactly one TileSummary per
\* distinct tile id in the buffer, whose frame_count is the number of buffered
\* rows carrying that tile id.
C3_OneSummaryPerTile ==
    [][(op' = "aggregate" /\ frame_buffer # <<>>) =>
        /\ exc' = "none"
        /\ Len(ret') = Cardinality(TileIdsOf(frame_buffer))
        /\ TileIdsOf(ret') = TileIdsOf(frame_buffer)
        /\ \A k \in DOMAIN ret' :
              ret'[k].frame_count = Len(group_rows(frame_buffer, ret'[k].tile_id))]_vars

\* C4: should_aggregate() is true exactly when at least window rows were
\* accepted since the buffer was last emptied, and once true it stays true
\* until aggregate() or flush() is called.
C4_ShouldAggregate ==
    /\ [](should_aggregate(frame_buffer, aggregate_window_frames)
            <=> (appended - emitted >= aggregate_window_frames))
    /\ [][(should_aggregate(frame_buffer, aggregate_window_frames)
            /\ op' \notin AggregateCalls)
          => should_aggregate(frame_buffer', aggregate_window_frames')]_vars

C4_Witness ==
    /\ op = "add_frame" /\ aggregate_window_frames = 2
    /\ Len(frame_buffer) = 2 /\ emitted = 1
    /\ should_aggregate(frame_buffer, aggregate_window_frames)

\* C5: add_frame leaves the buffer unchanged when the record has no latitude
\* or no longitude or get_tile reports out of bounds; otherwise it appends
\* exactly one row, tagged with the tile id get_tile returns, at the end of
\* the buffer and changes no row already buffered.
C5_AddFrameEffect ==
    [][op' = "add_frame" =>
        LET f == arg'[1]
        IN  IF \/ f.lat_deg = None
               \/ f.lon_deg = None
               \/ get_tile(tile_grid, f.lat_deg[1], f.lon_deg[1])[3] = "out_of_bounds"
            THEN frame_buffer' = frame_buffer
            ELSE /\ Len(frame_buffer') = Len(frame_buffer) + 1
                 /\ SubSeq(frame_buffer', 1, Len(frame_buffer)) = frame_buffer
                 /\ frame_buffer'[Len(frame_buffer')].tile_id =
                        get_tile(tile_grid, f.lat_deg[1], f.lon_deg[1])[3]
                 /\ frame_buffer'[Len(frame_buffer')].frame_id = f.frame_id]_vars

C5_Witness ==
    /\ op = "add_frame" /\ Len(frame_buffer) = 3
    /\ frame_buffer[1].tile_id = TileId(1, 1)
    /\ frame_buffer[3].tile_id = TileId(0, 0)

\* C6: a record whose bandpower or occupancy list does not have num_bands
\* entries is rejected by an exception when it is added or aggregated: no
\* aggregate()/flush() over a buffer holding such a row returns normally.
C6_FailFastOnBandMismatch ==
    [][(op' \in AggregateCalls /\ tainted) => exc' # "none"]_vars

\* C7: aggregate() called twice in a row returns an empty list the second
\* time, whatever the buffer held before the first call.
C7_SecondAggregateEmpty ==
    (op = "aggregate" /\ repeat) => (exc = "none" /\ ret = <<>>)

----------------------------------------------------------------------------
(* Claims about the pipeline *)

\* C8: band-indexed sequences never have a mismatched length.  Every record
\* process_frame returns has one bandpower and one occupancy entry per
\* configured band, entry i being the value of band i of the list; every
\* summary aggregate() or flush() returns has mean-bandpower, max-bandpower
\* and mean-occupancy sequences of length num_bands.
C8_BandSequenceLengths ==
    /\ (op = "process_frame" /\ exc = "none") =>
          LET r == ret[1]
              psd == compute_fft_psd(arg[1], window, window_power_correction)
          IN  /\ Len(r.bandpower_db) = Len(bands)
              /\ Len(r.occupancy_pct) = Len(bands)
              /\ \A i \in 1..Len(bands) :
                    /\ r.bandpower_db[i] =
                          compute_bandpower(r.freq_bins_hz, psd.psd_linear, bands[i],
                                            arg[1].center_freq_hz)
                    /\ r.occupancy_pct[i] =
                          compute_occupancy(r.freq_bins_hz, r.psd_db, bands[i],
                                            arg[1].center_freq_hz, r.noise_floor_db)
    /\ (op \in AggregateCalls /\ exc = "none") =>
          \A k \in DOMAIN ret :
              /\ Len(ret[k].bandpower_mean_db) = num_bands
              /\ Len(ret[k].bandpower_max_db) = num_bands
              /\ Len(ret[k].occupancy_mean_pct) = num_bands

\* A record of a three-band pipeline whose first band holds no bin.
C8_Witness ==
    /\ op = "process_frame" /\ exc = "none"
    /\ Len(bands) = 3
    /\ band_mask(ret[1].freq_bins_hz, bands[1], arg[1].center_freq_hz) = {}
    /\ Len(ret[1].bandpower_db) = 3
    /\ ret[1].bandpower_db[3] > ret[1].bandpower_db[1]

\* C9: the fix buffer holds at most 100 fixes, and they are exactly the
\* min(n, 100) most recent of the n fixes added since construction or the
\* last reset, in insertion order.
C9_FixBufferMostRecent ==
    /\ Len(gps_fixes) <= 100
    /\ Len(gps_fixes) = Min2(Len(fix_log), 100)
    /\ gps_fixes = SubSeq(fix_log, Len(fix_log) - Min2(Len(fix_log), 100) + 1, Len(fix_log))

\* Two fixes past the capacity: the two oldest are gone.
C9_Witness ==
    /\ op = "add_gps_fix"
    /\ Len(fix_log) = 102
    /\ Len(gps_fixes) = 100
    /\ gps_fixes[1] = fix_log[3]
    /\ gps_fixes[100] = arg[1]

\* C10: process_frame attaches the latitude and longitude of the fix added
\* last since construction or the last reset, whatever its timestamp is
\* next to the frame's; it attaches no position iff no fix was added since.
C10_LatestFixAttached ==
    (op = "process_frame" /\ exc = "none") =>
        /\ (ret[1].lat_deg = None) <=> (fix_log = <<>>)
        /\ (ret[1].lon_deg = None) <=> (fix_log = <<>>)
        /\ fix_log # <<>> =>
              /\ ret[1].lat_deg = Some(fix_log[Len(fix_log)].lat_deg)
              /\ ret[1].lon_deg = Some(fix_log[Len(fix_log)].lon_deg)

\* The second frame, with a newer fix added first and a fix a second older
\* than the frame added last: the record carries the older fix's position.
C10_Witness ==
    /\ op = "process_frame" /\ exc = "none"
    /\ Len(fix_log) = 2
    /\ fix_log[1].gps_timestamp_ns = arg[1].timestamp_ns
    /\ arg[1].timestamp_ns - fix_log[2].gps_timestamp_ns = 1000000000
    /\ ret[1].lat_deg = Some(-1)
    /\ ret[1].lat_deg # Some(fix_log[1].lat_deg)

----------------------------------------------------------------------------
(* Claims about the alignment *)

AlignDeltas(iq_timestamp_ns, fixes) ==
    {Abs(fixes[k].gps_timestamp_ns - iq_timestamp_ns) : k \in DOMAIN fixes}

\* C11: align_gps_to_iq returns the index of a fix that minimises
\* |fix.timestamp - frame.timestamp| over the whole list when that minimum is
\* at most the tolerance (the tolerance itself included), and none when the
\* list is empty or the minimum exceeds the tolerance.
C11_NearestWithinTolerance ==
    op = "align_gps_to_iq" =>
        LET t == arg[1]
            fixes == arg[2]
            tol == arg[3]
            deltas == AlignDeltas(t, fixes)
        IN  IF fixes = <<>> \/ \A d \in deltas : d > tol
            THEN ret = None
            ELSE /\ ret # None
                 /\ ret[1] \in 0..(Len(fixes) - 1)
                 /\ Abs(fixes[ret[1] + 1].gps_timestamp_ns - t) <= tol
                 /\ \A d \in deltas : Abs(fixes[ret[1] + 1].gps_timestamp_ns - t) <= d

\* The nearest fix is the last of three and exactly the default tolerance away.
C11_Witness ==
    /\ op = "align_gps_to_iq"
    /\ arg[3] = 1000000000
    /\ Len(arg[2]) = 3
    /\ ret = Some(2)
    /\ Abs(arg[2][3].gps_timestamp_ns - arg[1]) = 1000000000

----------------------------------------------------------------------------
(* Claims about frames of the wrong length, reset and the smoother *)

\* C12: process_frame raises, and returns no record, for every frame whose
\* sample count differs from the configured fft_size (frames of one sample
\* and frames longer than fft_size included).
C12_WrongLengthRaises ==
    (op = "process_frame" /\ Len(arg[1].iq) # fft_size) =>
        (exc # "none" /\ ret = None)

\* C13: a frame whose length differs from fft_size leaves the pipeline as it
\* found it: the smoother state and the fix buffer are the same after the
\* call as before, so that later records are those of a run without it.
C13_BadFrameKeepsState ==
    [][(op' = "process_frame" /\ Len(arg'[1].iq) # fft_size) =>
          (ema_state' = ema_state /\ gps_fixes' = gps_fixes)]_vars

\* C14: reset() leaves the smoother uninitialised and the fix buffer empty,
\* and fft_size, window, power correction, alpha, percentile and bands as
\* they were; the first process_frame after it returns a smoothed PSD equal
\* to the frame's raw PSD and no position, as a fresh pipeline would.
C14_ResetEffect ==
    [][/\ op' = "reset" =>
            /\ ema_state' = None
            /\ gps_fixes' = <<>>
            /\ cfgVars' = cfgVars
       /\ (op = "reset" /\ op' = "process_frame" /\ exc' = "none") =>
            /\ ret'[1].psd_smoothed_db = ret'[1].psd_db
            /\ ret'[1].lat_deg = None
            /\ ret'[1].lon_deg = None
            /\ ret'[1] = process_frame(arg'[1], window, window_power_correction,
                                       smoothing_factor, noise_floor_percentile,
                                       bands, None, <<>>).ret]_vars

\* A reset after a record with a position was produced and buffered: the
\* smoother and the fix buffer, both set before, are cleared.
C14_Witness ==
    /\ op = "reset"
    /\ frame_buffer # <<>>
    /\ ema_state = None
    /\ gps_fixes = <<>>
    /\ smoothing_factor = 50

PipelineCalls == {"process_frame", "add_gps_fix", "reset"}

\* C15: on the first update after construction or reset the output equals
\* the input and the state is stored by value: no PSD array held outside the
\* smoother, neither the input nor the array returned, is the object the
\* state is, so that no write into such an array reaches the smoother.
C15_FirstUpdateByValue ==
    [][(op' = "process_frame" /\ exc' = "none" /\ state_ref = None) =>
          /\ ret'[1].psd_smoothed_db = ret'[1].psd_db
          /\ state_ref'[1] \notin {held'[k].psd_db : k \in DOMAIN held'}
          /\ state_ref'[1] \notin {held'[k].psd_smoothed_db : k \in DOMAIN held'}]_vars

\* C16: a record is immutable once returned: no later process_frame,
\* add_gps_fix or reset changes what a holder reads in a record returned
\* before; its smoothed PSD is not altered by later updates of the smoother.
C16_ReturnedRecordImmutable ==
    [][op' \in PipelineCalls =>
          \A k \in DOMAIN held :
              /\ held'[k] = held[k]
              /\ record_now(heap', held'[k]) = record_now(heap, held[k])]_vars

\* Two records held, the smoother having moved on between them.
C16_Witness ==
    /\ op = "process_frame" /\ exc = "none"
    /\ Len(held) = 2
    /\ smoothing_factor = 50
    /\ held[1].psd_smoothed_db # held[2].psd_smoothed_db
    /\ heap[held[1].psd_smoothed_db] # heap[held[2].psd_smoothed_db]
    /\ heap[held[2].psd_smoothed_db] # heap[held[2].psd_db]

\* C17: with alpha = 1, update(x) returns x on every call, for every sequence
\* of inputs and whatever the state was before (left by earlier frames or
\* written into by a holder of the state array).
C17_AlphaOneIsIdentity ==
    [][(op' = "process_frame" /\ exc' = "none" /\ smoothing_factor = AlphaScale) =>
          /\ ret'[1].psd_smoothed_db = ret'[1].psd_db
          /\ ema_state' = Some(ret'[1].psd_db)
          /\ EMAFilter_update(ema_state, smoothing_factor, ret'[1].psd_db)
                = Some(ret'[1].psd_db)]_vars

\* The second record of a pipeline with alpha = 1, its PSD unlike the first's.
C17_Witness ==
    /\ op = "process_frame" /\ exc = "none"
    /\ smoothing_factor = AlphaScale
    /\ Len(held) = 2
    /\ heap[held[1].psd_smoothed_db] # ret[1].psd_db
    /\ ret[1].psd_smoothed_db = ret[1].psd_db

----------------------------------------------------------------------------
(* Claims about the tile grid *)

TileMidLat(tile) == (tile.lat_min + tile.lat_max) \div 2
TileMidLon(tile) == (tile.lon_min + tile.lon_max) \div 2

InBounds(grid, lat, lon) ==
    /\ grid.lat_min <= lat /\ lat <= grid.lat_max
    /\ grid.lon_min <= lon /\ lon <= grid.lon_max

\* C18: get_tile is a left inverse of the tile bounds: for every tile of
\* every grid (extents that are no multiple of the tile size included),
\* looking up the midpoint of the tile's bounds returns that tile's id.
C18_MidpointMapsBack ==
    op = "get_tile" =>
        \A k \in DOMAIN tile_grid.tiles :
            (arg = <<TileMidLat(tile_grid.tiles[k]), TileMidLon(tile_grid.tiles[k])>>)
                => ret[3] = tile_grid.tiles[k].tile_id

\* C19: get_tile returns the out-of-bounds result iff the point lies outside
\* [lat_min, lat_max] x [lon_min, lon_max]; for every point inside, the upper
\* boundary included, it returns one (x, y, id) with 0 <= x, y <= n - 1 whose
\* id is that of the tile (x, y) of the lookup, and the result is a function
\* of the point and the construction parameters of the grid.
C19_LocateTotalInBounds ==
    op = "get_tile" =>
        /\ (ret = <<-1, -1, "out_of_bounds">>) <=> ~InBounds(tile_grid, arg[1], arg[2])
        /\ InBounds(tile_grid, arg[1], arg[2]) =>
              /\ ret[1] \in 0..(tile_grid.num_tiles_x - 1)
              /\ ret[2] \in 0..(tile_grid.num_tiles_y - 1)
              /\ ret[3] \in DOMAIN tile_grid.tile_lookup
              /\ tile_grid.tile_lookup[ret[3]].tile_x = ret[1]
              /\ tile_grid.tile_lookup[ret[3]].tile_y = ret[2]
        /\ ret = get_tile(TileGrid(tile_grid.center_lat, tile_grid.center_lon,
                                   tile_grid.tile_size_meters,
                                   tile_grid.grid_extent_meters,
                                   tile_grid.rounding), arg[1], arg[2])

\* The upper corner of a grid of 2 x 2 tiles: the indexes 2 are clamped to 1.
C19_Witness ==
    /\ op = "get_tile"
    /\ tile_grid.num_tiles_x = 2
    /\ tile_grid.grid_extent_meters = 2 * tile_grid.tile_size_meters
    /\ arg = <<tile_grid.lat_max, tile_grid.lon_max>>
    /\ ret = <<1, 1, TileId(1, 1)>>
    /\ frame_buffer # <<>>

GridTileIds(n) == {TileId(x, y) : x \in 0..(n - 1), y \in 0..(n - 1)}

\* C20: a grid has n = ceil(extent / tile_size) tiles per axis, and from
\* construction on its lookup holds one tile for each (x, y) with
\* 0 <= x, y < n, n * n in all, each under the id of its (x, y); no call on
\* the grid or on an aggregator using it adds, removes or changes a tile.
C20_GridTilesFixed ==
    /\ [](LET n == tile_grid.num_tiles_x
              t == tile_grid.tile_size_meters
              e == tile_grid.grid_extent_meters
          IN  /\ tile_grid.num_tiles_y = n
              /\ n * t >= e /\ (n - 1) * t < e
              /\ Len(tile_grid.tiles) = n * n
              /\ Cardinality(DOMAIN tile_grid.tile_lookup) = n * n
              /\ DOMAIN tile_grid.tile_lookup = GridTileIds(n)
              /\ \A x, y \in 0..(n - 1) :
                    /\ tile_grid.tile_lookup[TileId(x, y)].tile_id = TileId(x, y)
                    /\ tile_grid.tile_lookup[TileId(x, y)].tile_x = x
                    /\ tile_grid.tile_lookup[TileId(x, y)].tile_y = y
                    /\ \E k \in DOMAIN tile_grid.tiles :
                          tile_grid.tiles[k] = tile_grid.tile_lookup[TileId(x, y)])
    /\ [][tile_grid' = tile_grid]_vars

\* A grid of extent 3 and tile size 2 (2 x 2 tiles), after its aggregator
\* returned a summary.
C20_Witness ==
    /\ op = "aggregate" /\ exc = "none" /\ Len(ret) = 1
    /\ tile_grid.grid_extent_meters = 3
    /\ tile_grid.tile_size_meters = 2
    /\ tile_grid.num_tiles_x = 2
    /\ Cardinality(DOMAIN tile_grid.tile_lookup) = 4

\* C21: for a grid whose extent is an even multiple n of the tile size,
\* get_tile at the grid's own centre returns the index (n/2, n/2), the grid
\* having n x n tiles (10 x 10 tiles and the index (5, 5) for tiles of 100 m
\* over an extent of 1000 m).
C21_CentreIndex ==
    LET t == tile_grid.tile_size_meters
        e == tile_grid.grid_extent_meters
    IN  (/\ op = "get_tile"
         /\ arg = <<tile_grid.center_lat, tile_grid.center_lon>>
         /\ e % (2 * t) = 0)
        => /\ tile_grid.num_tiles_x = e \div t
           /\ tile_grid.num_tiles_y = e \div t
           /\ ret[1] = e \div (2 * t)
           /\ ret[2] = e \div (2 * t)

\* C28: for every point inside the grid bounds, the tile whose id get_tile
\* returns contains the point (Tile.contains), the points on the upper
\* boundary whose index is clamped to n - 1 and the grids whose extent is no
\* multiple of the tile size included.
C28_LocatedTileContainsPoint ==
    (op = "get_tile" /\ InBounds(tile_grid, arg[1], arg[2]))
        => Tile_contains(tile_grid.tile_lookup[ret[3]], arg[1], arg[2])

----------------------------------------------------------------------------
(* Claims about the spectral estimate and the band features *)

C23_EmptyBandFloor ==
    op = "process_frame" =>
        /\ (exc = "none") <=> (broadcast_len(Len(arg[1].iq), fft_size) # -1)
        /\ exc = "none" =>
              /\ Len(ret[1].bandpower_db) = Len(bands)
              /\ Len(ret[1].occupancy_pct) = Len(bands)
              /\ \A i \in DOMAIN bands :
                    (band_mask(ret[1].freq_bins_hz, bands[i], arg[1].center_freq_hz) = {})
                        => /\ ret[1].bandpower_db[i] = -120
                           /\ ret[1].occupancy_pct[i] = 0

\* A frame with power in the second band, through the band list whose
\* first band holds no bin.
C23_Witness ==
    /\ op = "process_frame" /\ exc = "none"
    /\ bands = <<NarrowBand, UpBand, LowBand>>
    /\ band_mask(ret[1].freq_bins_hz, NarrowBand, arg[1].center_freq_hz) = {}
    /\ ret[1].bandpower_db[1] = -120 /\ ret[1].occupancy_pct[1] = 0
    /\ ret[1].bandpower_db[2] > -120

\* C24: a frame of all-zero samples yields psd_db at the floor of -120 dB in
\* every bin and an occupancy of 0 for every configured band, as the first
\* frame and after any earlier frames.
C24_SilenceAtFloor ==
    (/\ op = "process_frame" /\ exc = "none"
     /\ \A k \in DOMAIN arg[1].iq : arg[1].iq[k] = Zero)
        => /\ \A k \in DOMAIN ret[1].psd_db : ret[1].psd_db[k] = floor_db
           /\ Len(ret[1].psd_db) = fft_size
           /\ Len(ret[1].occupancy_pct) = Len(bands)
           /\ \A i \in DOMAIN ret[1].occupancy_pct : ret[1].occupancy_pct[i] = 0

\* Silence as the second frame, the smoother still holding power of the first.
C24_Witness ==
    /\ op = "process_frame" /\ exc = "none" /\ submitted = 2
    /\ arg[1].iq = <<Zero, Zero, Zero, Zero>>
    /\ \E k \in DOMAIN ret[1].psd_smoothed_db : ret[1].psd_smoothed_db[k] > floor_db
    /\ bands = <<LowBand, NarrowBand>>
    /\ ret[1].occupancy_pct = <<0, 0>>

----------------------------------------------------------------------------
(* Claims about order, the summaries and the driver loop *)

\* C25: order is preserved.  The k-th process_frame call returns the record
\* carrying the id and timestamp of the k-th submitted frame; the buffer of
\* the aggregator is at every moment the sequence of the rows of the records
\* add_frame accepted since the last aggregate() or flush(), in the order
\* they were added: add_frame appends at the end or leaves the buffer, a
\* call of aggregate() or flush() leaves it empty, nothing else touches it.
C25_OrderPreserved ==
    [][/\ (op' = "process_frame" /\ exc' = "none") =>
              /\ ret'[1].frame_id = arg'[1].frame_id
              /\ ret'[1].timestamp_ns = arg'[1].timestamp_ns
              /\ arg'[1].frame_id = submitted'
       /\ op' = "add_frame" =>
              \/ frame_buffer' = frame_buffer
              \/ /\ Len(frame_buffer') = Len(frame_buffer) + 1
                 /\ SubSeq(frame_buffer', 1, Len(frame_buffer)) = frame_buffer
                 /\ frame_buffer'[Len(frame_buffer')].frame_id = arg'[1].frame_id
                 /\ frame_buffer'[Len(frame_buffer')].timestamp_ns = arg'[1].timestamp_ns
       /\ op' \in AggregateCalls => frame_buffer' = <<>>
       /\ op' \notin (AggregateCalls \cup {"add_frame"}) => frame_buffer' = frame_buffer]_vars

\* C26: in each summary aggregate() returns, the min and max timestamp are
\* the minimum and maximum timestamp over exactly the buffered rows of the
\* tile (so min <= max); each band's max bandpower is the maximum of that
\* band's bandpower over those rows, and each band's mean bandpower and mean
\* occupancy is the arithmetic mean over those rows (so the mean bandpower
\* of a band never exceeds its max).
C26_SummaryStatistics ==
    [][(op' \in AggregateCalls /\ exc' = "none") =>
        \A k \in DOMAIN ret' :
            LET rows == SelectSeq(frame_buffer, LAMBDA r : r.tile_id = ret'[k].tile_id)
                n == Len(rows)
            IN  /\ n > 0
                /\ \A j \in 1..n : ret'[k].timestamp_min_ns <= rows[j].timestamp_ns
                /\ \A j \in 1..n : ret'[k].timestamp_max_ns >= rows[j].timestamp_ns
                /\ \E j \in 1..n : ret'[k].timestamp_min_ns = rows[j].timestamp_ns
                /\ \E j \in 1..n : ret'[k].timestamp_max_ns = rows[j].timestamp_ns
                /\ ret'[k].timestamp_min_ns <= ret'[k].timestamp_max_ns
                /\ \A i \in 1..num_bands :
                      /\ \A j \in 1..n : Len(rows[j].bandpower_db) >= i
                      /\ ret'[k].bandpower_max_db[i] # NaN
                      /\ \A j \in 1..n : ret'[k].bandpower_max_db[i][1] >= rows[j].bandpower_db[i]
                      /\ \E j \in 1..n : ret'[k].bandpower_max_db[i][1] = rows[j].bandpower_db[i]
                      /\ ret'[k].bandpower_mean_db[i] =
                            <<SeqSum([j \in 1..n |-> rows[j].bandpower_db[i]]), n>>
                      /\ ret'[k].occupancy_mean_pct[i] =
                            <<SeqSum([j \in 1..n |-> rows[j].occupancy_pct[i]]), n>>
                      /\ ret'[k].bandpower_mean_db[i][1]
                            <= ret'[k].bandpower_max_db[i][1] * n]_vars

\* C27: every row in the buffer carries a tile id that is a key of the
\* grid's lookup, so aggregate() never skips a group for an unknown id: a
\* call that returns gives a summary for every tile id in the buffer, and
\* the frame counts of its summaries add up to the length of the buffer.
C27_BufferedTilesKnown ==
    /\ [](\A k \in DOMAIN frame_buffer :
            frame_buffer[k].tile_id \in DOMAIN tile_grid.tile_lookup)
    /\ [][(op' \in AggregateCalls /\ exc' = "none") =>
            /\ TileIdsOf(ret') = TileIdsOf(frame_buffer)
            /\ frame_count_sum(ret') = Len(frame_buffer)]_vars

\* Two records at the upper corner of the grid, whose index is clamped,
\* summarised in the last tile.
C27_Witness ==
    /\ op = "aggregate" /\ exc = "none" /\ Len(ret) = 1
    /\ ret[1].tile_id = TileId(1, 1)
    /\ ret[1].frame_count = 2
    /\ tile_grid.num_tiles_x = 2

\* C29: in the driver loop, with a window of W >= 1 frames, the buffer holds
\* fewer than W rows after every iteration (it reaches W only between
\* add_frame and the aggregate() that follows it), and every batch emitted
\* inside the loop summarises exactly W records; only the final flush() may
\* emit fewer.
C29_DriverBatchesExact ==
    /\ Len(frame_buffer) <= aggregate_window_frames
    /\ op # "add_frame" => Len(frame_buffer) < aggregate_window_frames
    /\ op = "aggregate" =>
          /\ exc = "none"
          /\ frame_count_sum(ret) = aggregate_window_frames
    /\ op = "flush" =>
          /\ exc = "none"
          /\ frame_count_sum(ret) < aggregate_window_frames

\* A window of two frames: a batch of two inside the loop, then the third
\* record alone in the final flush.
C29_Witness ==
    /\ op = "flush" /\ exc = "none"
    /\ aggregate_window_frames = 2
    /\ frame_count_sum(ret) = 1
    /\ emitted = 3 /\ appended = 3

\* The smoothed PSD that process_frame hands to estimate_noise_floor, written
\* out from the state before the call and the frame's raw PSD.
C30_Smoothed(old_state, raw) ==
    IF old_state = None
    THEN raw
    ELSE [k \in DOMAIN raw |->
            (smoothing_factor * raw[k]
               + (AlphaScale - smoothing_factor) * old_state[1][k]) \div AlphaScale]

\* The first half of C30: the record's noise floor is the configured
\* percentile of the smoother's state after this frame's update, and each
\* band's occupancy compares the frame's raw PSD with that floor.
C30_FloorAndOccupancy ==
    /\ ema_state' = Some(ret'[1].psd_smoothed_db)
    /\ ret'[1].psd_smoothed_db = C30_Smoothed(ema_state, ret'[1].psd_db)
    /\ ret'[1].noise_floor_db =
          estimate_noise_floor(ret'[1].psd_smoothed_db, noise_floor_percentile)
    /\ ret'[1].occupancy_pct =
          [b \in DOMAIN bands |->
              compute_occupancy(ret'[1].freq_bins_hz, ret'[1].psd_db, bands[b],
                                arg'[1].center_freq_hz, ret'[1].noise_floor_db)]

\* C30 as stated: process_frame takes the noise floor from the smoothed PSD
\* and the occupancy from the raw PSD, and only on the first frame after
\* construction or reset is the floor the percentile of the frame's own raw
\* PSD.
C30_FloorRawOnlyOnFirstFrame ==
    [][op' = "process_frame" /\ exc' = "none" =>
          /\ C30_FloorAndOccupancy
          /\ ret'[1].noise_floor_db =
                estimate_noise_floor(ret'[1].psd_db, noise_floor_percentile)
             <=> ema_state = None]_vars

\* C30, amended: process_frame takes the noise floor from the smoothed PSD
\* and the occupancy from the raw PSD; on the first frame after construction
\* or reset the smoothed PSD is the raw PSD, so the floor is the percentile of
\* the frame's own raw PSD (on later frames the two may or may not agree).
C30_FloorFromSmoothed ==
    [][op' = "process_frame" /\ exc' = "none" =>
          /\ C30_FloorAndOccupancy
          /\ ema_state = None =>
                ret'[1].noise_floor_db =
                   estimate_noise_floor(ret'[1].psd_db, noise_floor_percentile)]_vars

\* A second frame with smoothing at one half after a different first frame:
\* the floor comes from a smoothed PSD that is not the frame's raw PSD, and
\* differs from the raw PSD's percentile.
C30_Witness ==
    /\ op = "process_frame" /\ exc = "none"
    /\ submitted = 2
    /\ smoothing_factor = 50
    /\ ret[1].psd_smoothed_db # ret[1].psd_db
    /\ ret[1].noise_floor_db = estimate_noise_floor(ret[1].psd_smoothed_db, noise_floor_percentile)
    /\ ret[1].noise_floor_db # estimate_noise_floor(ret[1].psd_db, noise_floor_percentile)

====
